---- MODULE Spec2Model ----
(***************************************************************************)
(* A model of the extraction core of MedScan (src/medscan/app.py): the     *)
(* parsing helpers find / clean_name / is_handwritten_table /              *)
(* parse_handwritten_line / extract_handwritten / extract, the clinical    *)
(* classifiers bp_status / sugar_status, and the /scan request handler.    *)
(*                                                                         *)
(* Python strings taken from OCR text are sequences of one-character       *)
(* strings, so that slicing, searching, stripping and number conversion    *)
(* are computed character by character as the code computes them.  Python  *)
(* None is the value None below, a sequence no text can equal.  Status     *)
(* strings built from literals ("High", "Fasting: Normal", ...) are TLA+   *)
(* strings.                                                                *)
(***************************************************************************)
EXTENDS Integers, Sequences, FiniteSets, TLC

VARIABLES
    request,   \* the /scan request: [method, has_images, key, files]
    idx,       \* position of the for-loop of scan() in request.files
    results,   \* the list `results` of scan()
    response,  \* the response of scan(), NoResponse while it runs
    call,      \* a call of one parsing helper: [fn, args]
    ret        \* its return value, NoRet before the call returns

vars == <<request, idx, results, response, call, ret>>

\* ------------------------------------------------------------------------
\* Characters and Python string primitives
\* ------------------------------------------------------------------------

None == <<"None">>

Digits == {"0", "1", "2", "3", "4", "5", "6", "7", "8", "9"}

Uppers == {"A", "B", "C", "D", "E", "F", "G", "H", "I", "J", "K", "L", "M",
           "N", "O", "P", "Q", "R", "S", "T", "U", "V", "W", "X", "Y", "Z"}

Lowers == {"a", "b", "c", "d", "e", "f", "g", "h", "i", "j", "k", "l", "m",
           "n", "o", "p", "q", "r", "s", "t", "u", "v", "w", "x", "y", "z"}

Letters == Uppers \cup Lowers

\* \s of the re module and the characters str.strip() removes (the ASCII ones
\* TLA+ can write).
Space == {" ", "\t", "\n", "\r", "\f"}

\* \w of the re module.
WordChars == Letters \cup Digits \cup {"_"}

UpperOf ==
    [c \in Lowers |->
        CASE c = "a" -> "A" [] c = "b" -> "B" [] c = "c" -> "C" [] c = "d" -> "D"
          [] c = "e" -> "E" [] c = "f" -> "F" [] c = "g" -> "G" [] c = "h" -> "H"
          [] c = "i" -> "I" [] c = "j" -> "J" [] c = "k" -> "K" [] c = "l" -> "L"
          [] c = "m" -> "M" [] c = "n" -> "N" [] c = "o" -> "O" [] c = "p" -> "P"
          [] c = "q" -> "Q" [] c = "r" -> "R" [] c = "s" -> "S" [] c = "t" -> "T"
          [] c = "u" -> "U" [] c = "v" -> "V" [] c = "w" -> "W" [] c = "x" -> "X"
          [] c = "y" -> "Y" [] c = "z" -> "Z"]

Upper(c) == IF c \in Lowers THEN UpperOf[c] ELSE c

Lower(c) == IF c \in Uppers THEN CHOOSE l \in Lowers : UpperOf[l] = c ELSE c

\* str.upper()
upper(s) == [i \in 1..Len(s) |-> Upper(s[i])]

\* str.title() on a run of letters (the only argument extract() gives it).
title(s) == [i \in 1..Len(s) |-> IF i = 1 THEN Upper(s[i]) ELSE Lower(s[i])]

RECURSIVE LStrip(_)
LStrip(s) == IF s # <<>> /\ Head(s) \in Space THEN LStrip(Tail(s)) ELSE s

RECURSIVE RStrip(_)
RStrip(s) ==
    IF s # <<>> /\ s[Len(s)] \in Space THEN RStrip(SubSeq(s, 1, Len(s) - 1)) ELSE s

\* str.strip()
strip(s) == RStrip(LStrip(s))

\* The value of a run of decimal digits.
DigitVal(c) ==
    CASE c = "0" -> 0 [] c = "1" -> 1 [] c = "2" -> 2 [] c = "3" -> 3
      [] c = "4" -> 4 [] c = "5" -> 5 [] c = "6" -> 6 [] c = "7" -> 7
      [] c = "8" -> 8 [] c = "9" -> 9

RECURSIVE DigitsVal(_)
DigitsVal(s) ==
    IF s = <<>> THEN 0 ELSE 10 * DigitsVal(SubSeq(s, 1, Len(s) - 1)) + DigitVal(s[Len(s)])

DigitChar(n) == CHOOSE c \in Digits : DigitVal(c) = n

\* str(n) of an int n
RECURSIVE StrNat(_)
StrNat(n) == IF n < 10 THEN <<DigitChar(n)>> ELSE Append(StrNat(n \div 10), DigitChar(n % 10))

str(n) == IF n < 0 THEN <<"-">> \o StrNat(-n) ELSE StrNat(n)

\* text.split('\n')
RECURSIVE SplitLines(_)
SplitLines(s) ==
    IF \E i \in 1..Len(s) : s[i] = "\n"
    THEN LET i == CHOOSE k \in 1..Len(s) : s[k] = "\n" /\ \A j \in 1..(k - 1) : s[j] # "\n"
         IN  <<SubSeq(s, 1, i - 1)>> \o SplitLines(SubSeq(s, i + 1, Len(s)))
    ELSE <<s>>

\* ------------------------------------------------------------------------
\* The re module: a backtracking matcher over the patterns the code uses
\* ------------------------------------------------------------------------
\* A pattern is a sequence of nodes, matched left to right with backtracking
\* in the order of the re module: a quantifier tries its longest run first
\* (all quantifiers of the code are greedy), an alternation its alternatives
\* from left to right.

Unbounded == 1000 * 1000

Cls(set, lo, hi)  == [t |-> "cls", set |-> set, neg |-> FALSE, min |-> lo, max |-> hi]
NCls(set, lo, hi) == [t |-> "cls", set |-> set, neg |-> TRUE, min |-> lo, max |-> hi]
Ch(c)             == Cls({c}, 1, 1)
Alt(alts)         == [t |-> "alt", alts |-> alts]
Opt(nodes)        == Alt(<<nodes, <<>>>>)
Open(g)           == [t |-> "open", g |-> g]
Close(g)          == [t |-> "close", g |-> g]
WordBoundary      == [t |-> "wb"]
EndAnchor         == [t |-> "end"]

\* A literal.
Lit(s) == <<[t |-> "lit", s |-> s]>>

Fail == [ok |-> FALSE]

NoGroups == [g \in {1, 2} |-> [start |-> 0, end |-> 0]]

\* Whether character c is in the class of node n; with re.IGNORECASE a letter
\* matches when either of its cases is in the class.
InSet(set, c, icase) ==
    IF icase THEN c \in set \/ Upper(c) \in set \/ Lower(c) \in set ELSE c \in set

InClass(n, c, icase) == IF n.neg THEN ~InSet(n.set, c, icase) ELSE InSet(n.set, c, icase)

\* The length of the run of class characters at pos, at most lim.
RunUpTo(n, text, pos, icase, lim) ==
    CHOOSE k \in 0..lim :
        /\ \A j \in 0..(k - 1) : InClass(n, text[pos + j], icase)
        /\ (k = lim \/ ~InClass(n, text[pos + k], icase))

RunLen(n, text, pos, icase) ==
    RunUpTo(n, text, pos, icase,
            IF n.max < Len(text) - pos + 1 THEN n.max ELSE Len(text) - pos + 1)

\* Whether the literal s is read at pos.
LitAt(s, text, pos, icase) ==
    /\ pos + Len(s) - 1 <= Len(text)
    /\ \A i \in 1..Len(s) :
          IF icase THEN Upper(text[pos + i - 1]) = Upper(s[i]) ELSE text[pos + i - 1] = s[i]

IsWord(text, i) == i >= 1 /\ i <= Len(text) /\ text[i] \in WordChars

\* $ without re.MULTILINE: the end, or before a final newline
AtEnd(text, pos) == pos = Len(text) + 1 \/ (pos = Len(text) /\ text[pos] = "\n")

\* One way to go on after the first node: what is left to match, from where,
\* with which groups.
Way(nodes, pos, caps) == [nodes |-> nodes, pos |-> pos, caps |-> caps]

\* A quantifier's ways after a run of r class characters: the longest first.
ClsWays(n, rest, pos, caps, r) ==
    IF r < n.min THEN <<>>
    ELSE [i \in 1..(r - n.min + 1) |-> Way(rest, pos + r - (i - 1), caps)]

\* The ways to match node n at pos, `rest` being the nodes after it, in the
\* order the re module tries them: a quantifier's longest run first, an
\* alternation's alternatives from left to right.
Ways(n, rest, text, pos, caps, icase) ==
    CASE n.t = "lit" ->
            IF LitAt(n.s, text, pos, icase) THEN <<Way(rest, pos + Len(n.s), caps)>> ELSE <<>>
      [] n.t = "cls" -> ClsWays(n, rest, pos, caps, RunLen(n, text, pos, icase))
      [] n.t = "alt" -> [j \in 1..Len(n.alts) |-> Way(n.alts[j] \o rest, pos, caps)]
      [] n.t = "open" -> <<Way(rest, pos, [caps EXCEPT ![n.g].start = pos])>>
      [] n.t = "close" -> <<Way(rest, pos, [caps EXCEPT ![n.g].end = pos])>>
      [] n.t = "wb" ->
            IF IsWord(text, pos - 1) # IsWord(text, pos) THEN <<Way(rest, pos, caps)>> ELSE <<>>
      [] n.t = "end" -> IF AtEnd(text, pos) THEN <<Way(rest, pos, caps)>> ELSE <<>>

\* Of pairs <<order, match>>, the successful match that comes first, or Fail.
FirstOf(tried) ==
    IF \A x \in tried : ~x[2].ok THEN Fail
    ELSE (CHOOSE x \in tried : x[2].ok /\ \A y \in tried : y[2].ok => x[1] <= y[1])[2]

\* Match `nodes` at position pos (1-based, the next character to read): the
\* match backtracking finds first.
RECURSIVE MatchAt(_, _, _, _, _)
RECURSIVE TryWays(_, _, _)

MatchAt(nodes, text, pos, caps, icase) ==
    IF nodes = <<>> THEN [ok |-> TRUE, end |-> pos, caps |-> caps]
    ELSE TryWays(Ways(Head(nodes), Tail(nodes), text, pos, caps, icase), text, icase)

TryWays(ways, text, icase) ==
    FirstOf({<<i, MatchAt(ways[i].nodes, text, ways[i].pos, ways[i].caps, icase)>> :
                i \in 1..Len(ways)})

Found(start, m) ==
    IF m.ok THEN [ok |-> TRUE, start |-> start, end |-> m.end, caps |-> m.caps] ELSE Fail

\* re.search from position `from`: the leftmost match.
SearchFrom(nodes, text, from, icase) ==
    FirstOf({<<i, Found(i, MatchAt(nodes, text, i, NoGroups, icase))>> :
                i \in from..(Len(text) + 1)})

Search(nodes, text, icase) == SearchFrom(nodes, text, 1, icase)

\* m.group(g)
Group(m, text, g) == SubSeq(text, m.caps[g].start, m.caps[g].end - 1)

\* len(re.findall(...)): the non-overlapping matches, left to right.
RECURSIVE CountFrom(_, _, _, _)
RECURSIVE CountNext(_, _, _, _)

CountFrom(nodes, text, from, icase) ==
    CountNext(nodes, text, SearchFrom(nodes, text, from, icase), icase)

CountNext(nodes, text, m, icase) ==
    IF ~m.ok THEN 0
    ELSE 1 + CountFrom(nodes, text, IF m.end > m.start THEN m.end ELSE m.end + 1, icase)

\* re.split(...)[0]: the text before match m, all of it without a match
Before(text, m) == IF m.ok THEN SubSeq(text, 1, m.start - 1) ELSE text

SplitFirst(nodes, text, icase) == Before(text, Search(nodes, text, icase))

\* re.sub(pattern, '', text)
RECURSIVE SubEmptyFrom(_, _, _, _)
RECURSIVE SubEmptyNext(_, _, _, _, _)

SubEmptyFrom(nodes, text, from, icase) ==
    SubEmptyNext(nodes, text, from, SearchFrom(nodes, text, from, icase), icase)

SubEmptyNext(nodes, text, from, m, icase) ==
    IF ~m.ok THEN SubSeq(text, from, Len(text))
    ELSE SubSeq(text, from, m.start - 1)
         \o (IF m.end > m.start THEN SubEmptyFrom(nodes, text, m.end, icase)
             ELSE IF m.end > Len(text) THEN <<>>
             ELSE <<text[m.end]>> \o SubEmptyFrom(nodes, text, m.end + 1, icase))

SubEmpty(nodes, text, icase) == SubEmptyFrom(nodes, text, 1, icase)

\* Pattern pieces shared by the code's patterns.
SP0 == Cls(Space, 0, Unbounded)          \* \s*
SP1 == Cls(Space, 1, Unbounded)          \* \s+
D(lo, hi) == Cls(Digits, lo, hi)         \* \d{lo,hi}

\* ------------------------------------------------------------------------
\* Parsing helpers
\* ------------------------------------------------------------------------

\* Python truthiness of a str-or-None value, and `a or b`.
Truthy(x) == x # None /\ x # <<>>

Or(a, b) == IF Truthy(a) THEN a ELSE b

\* `m.group(group).strip() if m else None`
GroupOrNone(m, text) == IF m.ok THEN strip(Group(m, text, 1)) ELSE None

\* def find(pattern, text, group=1)
find(pattern, text) == GroupOrNone(Search(pattern, text, TRUE), text)

\* r'\s+(?:DATE\s*[:=]|D\.O\.B|DOB\s*[:=]|ID\s*[:=]|AGE\s*[:=]|REF\.|SAMPLE|REPORT)'
NoiseKeywords ==
    <<SP1,
      Alt(<<Lit(<<"D", "A", "T", "E">>) \o <<SP0, Cls({":", "="}, 1, 1)>>,
            Lit(<<"D", ".", "O", ".", "B">>),
            Lit(<<"D", "O", "B">>) \o <<SP0, Cls({":", "="}, 1, 1)>>,
            Lit(<<"I", "D">>) \o <<SP0, Cls({":", "="}, 1, 1)>>,
            Lit(<<"A", "G", "E">>) \o <<SP0, Cls({":", "="}, 1, 1)>>,
            Lit(<<"R", "E", "F", ".">>),
            Lit(<<"S", "A", "M", "P", "L", "E">>),
            Lit(<<"R", "E", "P", "O", "R", "T">>)>>)>>

\* r'[\s\d:./\-]+$'
TrailingNoise ==
    <<Cls(Space \cup Digits \cup {":", ".", "/", "-"}, 1, Unbounded), EndAnchor>>

\* clean_name() without the re.sub() of the trailing noise: the variant
\* C8_CleanNameIdempotent must tell from clean_name().
clean_nameKeepTrailing(raw) ==
    IF ~Truthy(raw) THEN raw ELSE strip(SplitFirst(NoiseKeywords, raw, TRUE))

\* def clean_name(raw)
clean_name(raw) ==
    IF ~Truthy(raw) THEN raw
    ELSE strip(SubEmpty(TrailingNoise, SplitFirst(NoiseKeywords, raw, TRUE), FALSE))

\* r'Patient\s*Name\s*:'
PatientNameLabel ==
    Lit(<<"P", "A", "T", "I", "E", "N", "T">>) \o <<SP0>>
    \o Lit(<<"N", "A", "M", "E">>) \o <<SP0, Ch(":")>>

BpSep == Cls({"/", "|", "\\"}, 1, 1)

\* r'\d{2,3}[/|\\]\d{2,3}'
BpToken == <<D(2, 3), BpSep, D(2, 3)>>

\* has_label and has_bp_slash of is_handwritten_table()
has_label(text) == Search(PatientNameLabel, text, TRUE).ok

has_bp_slash(text) == CountFrom(BpToken, text, 1, FALSE) >= 3

\* is_handwritten_table() without the label test: the variant C6_ModeByText
\* must tell from is_handwritten_table().
is_handwritten_tableNoLabel(text) == has_bp_slash(text)

\* def is_handwritten_table(text)
is_handwritten_table(text) == ~has_label(text) /\ has_bp_slash(text)

\* r'(\d{2,3})[/|\\](\d{2,3})'
BpTokenGroups == <<Open(1), D(2, 3), Close(1), BpSep, Open(2), D(2, 3), Close(2)>>

\* r'\b(\d{2,3})\b'
PulseToken == <<WordBoundary, Open(1), D(2, 3), Close(1), WordBoundary>>

\* r'^[^A-Za-z]+' : the leading run of non-letters
RECURSIVE StripLeadingNonLetters(_)
StripLeadingNonLetters(s) ==
    IF s # <<>> /\ Head(s) \notin Letters THEN StripLeadingNonLetters(Tail(s)) ELSE s

\* r'[^A-Za-z\s\.\-]+$'
TrailingNonName ==
    <<NCls(Letters \cup Space \cup {".", "-"}, 1, Unbounded), EndAnchor>>

\* r'[A-Za-z]{4,}'
NotesWord == <<Cls(Letters, 4, Unbounded)>>

\* An int-or-None value: NoNumber is None (also what int() raising leaves).
NoNumber == [ok |-> FALSE]

\* `pr = int(pr_match.group(1)) if pr_match else None`
PulseOf(pr_match, after_bp) ==
    IF pr_match.ok THEN [ok |-> TRUE, val |-> DigitsVal(Group(pr_match, after_bp, 1))]
    ELSE NoNumber

\* `str(pr) if pr else ''`
PulseText(pr) == IF pr.ok /\ pr.val # 0 THEN str(pr.val) ELSE <<>>

\* The two re.sub() and strip() calls that make `name` of the text before the
\* BP token.
NameOf(before_bp) ==
    strip(SubEmpty(TrailingNonName, strip(StripLeadingNonLetters(before_bp)), FALSE))

\* `nm.group(0) if nm else ''`
WholeOrEmpty(nm, text) == IF nm.ok THEN SubSeq(text, nm.start, nm.end - 1) ELSE <<>>

\* `notes` of the text after the BP token, pr_match being the pulse match in it
NotesOf(pr_match, after_bp) ==
    IF pr_match.ok
    THEN WholeOrEmpty(Search(NotesWord, strip(SubSeq(after_bp, pr_match.end, Len(after_bp))),
                             FALSE),
                      strip(SubSeq(after_bp, pr_match.end, Len(after_bp))))
    ELSE <<>>

\* The dict parse_handwritten_line() returns.
RowOf(name, systolic, diastolic, pr_match, after_bp) ==
    IF name = <<>> \/ Len(name) < 2 THEN None
    ELSE ("Patient Name" :> name)
         @@ ("Systolic BP" :> str(systolic))
         @@ ("Diastolic BP" :> str(diastolic))
         @@ ("Pulse / PR (bpm)" :> PulseText(PulseOf(pr_match, after_bp)))
         @@ ("Notes" :> NotesOf(pr_match, after_bp))

\* parse_handwritten_line() after the BP token was found in range
ParseAround(before_bp, after_bp, systolic, diastolic) ==
    RowOf(NameOf(before_bp), systolic, diastolic, Search(PulseToken, after_bp, FALSE),
          after_bp)

\* parse_handwritten_line() from `systolic, diastolic = int(...), int(...)` on
ParseReading(line, bp, systolic, diastolic) ==
    IF ~(60 <= systolic /\ systolic <= 250 /\ 40 <= diastolic /\ diastolic <= 150) THEN None
    ELSE ParseAround(SubSeq(line, 1, bp.start - 1), SubSeq(line, bp.end, Len(line)),
                     systolic, diastolic)

\* parse_handwritten_line() from `if not bp: return None` on
ParseBp(line, bp) ==
    IF ~bp.ok THEN None
    ELSE ParseReading(line, bp, DigitsVal(Group(bp, line, 1)), DigitsVal(Group(bp, line, 2)))

\* parse_handwritten_line() after `line = line.strip()`
ParseStripped(line) ==
    IF line = <<>> \/ Len(line) < 5 THEN None
    ELSE ParseBp(line, Search(BpTokenGroups, line, FALSE))

\* def parse_handwritten_line(line); the returned dict, or None
parse_handwritten_line(line) == ParseStripped(strip(line))

\* ------------------------------------------------------------------------
\* Clinical classifiers
\* ------------------------------------------------------------------------

\* Digits with single underscores between them, as int() and float() read them.
IsIntDigits(s) ==
    /\ s # <<>>
    /\ \A i \in 1..Len(s) : s[i] \in Digits \cup {"_"}
    /\ s[1] # "_" /\ s[Len(s)] # "_"
    /\ \A i \in 1..(Len(s) - 1) : ~(s[i] = "_" /\ s[i + 1] = "_")

RECURSIVE DropUnderscores(_)
DropUnderscores(s) ==
    IF s = <<>> THEN <<>>
    ELSE IF Head(s) = "_" THEN DropUnderscores(Tail(s))
    ELSE <<Head(s)>> \o DropUnderscores(Tail(s))

Unsigned(t) == IF t # <<>> /\ Head(t) \in {"+", "-"} THEN Tail(t) ELSE t

IsNegative(t) == t # <<>> /\ Head(t) = "-"

Signed(neg, v) == IF neg THEN -v ELSE v

\* int() of a stripped str
IntOfStripped(t) ==
    IF ~IsIntDigits(Unsigned(t)) THEN NoNumber
    ELSE [ok |-> TRUE, val |-> Signed(IsNegative(t), DigitsVal(DropUnderscores(Unsigned(t))))]

\* int(x) of a str: surrounding whitespace, an optional sign, decimal digits
\* with single underscores between them.  NoNumber when int() raises
\* (ValueError, or TypeError for None).
int(x) == IF x = None THEN NoNumber ELSE IntOfStripped(strip(x))

\* bp_status() with the Low rule tried first: the variant C3_BpStatus must tell
\* from bp_status().
BpBandLowFirst(s, d) ==
    IF s < 90 \/ d < 60 THEN "Low"
    ELSE IF s >= 140 \/ d >= 90 THEN "High"
    ELSE IF s >= 130 \/ d >= 80 THEN "Elevated"
    ELSE "Normal"

\* bp_status() once both int() calls returned
BpBand(s, d) ==
    IF s >= 140 \/ d >= 90 THEN "High"
    ELSE IF s >= 130 \/ d >= 80 THEN "Elevated"
    ELSE IF s < 90 \/ d < 60 THEN "Low"
    ELSE "Normal"

\* bp_status() with the outcomes of the two int() calls: `except: return ""`
BpOfParsed(sv, dv) == IF ~sv.ok \/ ~dv.ok THEN "" ELSE BpBand(sv.val, dv.val)

\* def bp_status(s, d)
bp_status(s, d) == BpOfParsed(int(s), int(d))

\* float(x) of a str: surrounding whitespace, an optional sign, then inf,
\* infinity or nan in any case, or decimal digits with an optional point and
\* an optional exponent.  NoNumber when float() raises.  A finite value is
\* mant * 10^(exp - scale), kept exact (the inputs of the model are short
\* enough that binary rounding never crosses a threshold).
FirstIndex(s, set) ==
    IF \E i \in 1..Len(s) : s[i] \in set
    THEN CHOOSE i \in 1..Len(s) : s[i] \in set /\ \A j \in 1..(i - 1) : s[j] \notin set
    ELSE 0

lower(s) == [i \in 1..Len(s) |-> Lower(s[i])]

\* The parts of s before and after position i (all of s and nothing when i = 0).
Upto(s, i) == IF i = 0 THEN s ELSE SubSeq(s, 1, i - 1)
After(s, i) == IF i = 0 THEN <<>> ELSE SubSeq(s, i + 1, Len(s))

\* A finite float of integer digits ip, fraction digits fp and exponent expo
\* (has_exp: whether e or E was written).
FiniteFloat(neg, ip, fp, has_exp, expo) ==
    IF /\ (ip = <<>> \/ IsIntDigits(ip))
       /\ (fp = <<>> \/ IsIntDigits(fp))
       /\ (ip # <<>> \/ fp # <<>>)
       /\ (~has_exp \/ IsIntDigits(Unsigned(expo)))
    THEN [ok |-> TRUE, kind |-> "fin", neg |-> neg,
          mant |-> DigitsVal(DropUnderscores(ip) \o DropUnderscores(fp)),
          scale |-> Len(DropUnderscores(fp)),
          exp |-> Signed(IsNegative(expo), DigitsVal(DropUnderscores(Unsigned(expo))))]
    ELSE NoNumber

\* float() of a mantissa and an exponent part
FloatOfParts(neg, mantissa, has_exp, expo) ==
    FiniteFloat(neg, Upto(mantissa, FirstIndex(mantissa, {"."})),
                After(mantissa, FirstIndex(mantissa, {"."})), has_exp, expo)

\* float() of a str without its sign
FloatOfBody(neg, body) ==
    IF lower(body) \in {<<"i", "n", "f">>, <<"i", "n", "f", "i", "n", "i", "t", "y">>}
    THEN [ok |-> TRUE, kind |-> "inf", neg |-> neg]
    ELSE IF lower(body) = <<"n", "a", "n">>
    THEN [ok |-> TRUE, kind |-> "nan", neg |-> neg]
    ELSE FloatOfParts(neg, Upto(body, FirstIndex(body, {"e", "E"})),
                      FirstIndex(body, {"e", "E"}) # 0,
                      After(body, FirstIndex(body, {"e", "E"})))

float(x) ==
    IF x = None THEN NoNumber ELSE FloatOfBody(IsNegative(strip(x)), Unsigned(strip(x)))

RECURSIVE Pow10(_)
Pow10(n) == IF n = 0 THEN 1 ELSE 10 * Pow10(n - 1)

\* fv >= t for a float fv and a positive threshold t
FloatGE(fv, t) ==
    CASE fv.kind = "nan" -> FALSE
      [] fv.kind = "inf" -> ~fv.neg
      [] fv.kind = "fin" ->
            /\ ~fv.neg
            /\ IF fv.exp >= fv.scale
               THEN fv.mant * Pow10(fv.exp - fv.scale) >= t
               ELSE fv.mant >= t * Pow10(fv.scale - fv.exp)

\* " | ".join(parts)
Join(parts) ==
    IF parts = <<>> THEN ""
    ELSE IF Len(parts) = 1 THEN parts[1]
    ELSE parts[1] \o " | " \o parts[2]

\* The fasting part with the lower threshold tried first: the variant
\* C5_FormatBSugarStatus must tell from FastingPart().
FastingPartLooseFirst(fv) ==
    IF FloatGE(fv, 100) THEN "Fasting: Pre-Diabetic"
    ELSE IF FloatGE(fv, 126) THEN "Fasting: Diabetic"
    ELSE "Fasting: Normal"

\* The part sugar_status() appends for the fasting reading fv
FastingPart(fv) ==
    IF FloatGE(fv, 126) THEN "Fasting: Diabetic"
    ELSE IF FloatGE(fv, 100) THEN "Fasting: Pre-Diabetic"
    ELSE "Fasting: Normal"

\* The part sugar_status() appends for the post-prandial reading pv
PPPart(pv) ==
    IF FloatGE(pv, 200) THEN "PP: Diabetic"
    ELSE IF FloatGE(pv, 140) THEN "PP: Pre-Diabetic"
    ELSE "PP: Normal"

\* The two try blocks of sugar_status(), each appending its part or passing
FastingParts(fv) == IF fv.ok THEN <<FastingPart(fv)>> ELSE <<>>
PPParts(pv) == IF pv.ok THEN <<PPPart(pv)>> ELSE <<>>

\* sugar_status() with both readings parsed in one try block: the variant
\* C4_SugarStatus must tell from sugar_status().
sugar_statusOneTry(f, p) ==
    IF float(f).ok THEN Join(FastingParts(float(f)) \o PPParts(float(p))) ELSE ""

\* def sugar_status(f, p)
sugar_status(f, p) == Join(FastingParts(float(f)) \o PPParts(float(p)))

\* ------------------------------------------------------------------------
\* Extractors
\* ------------------------------------------------------------------------

\* The columns extract_handwritten() blanks in every row.
BlankedColumns ==
    {"Age", "Gender", "Height (cm)", "Weight (kg)", "BMI",
     "Fasting Sugar (mg/dL)", "Post Prandial Sugar (mg/dL)"}

\* The body of the loop of extract_handwritten() for one parsed row; `now` is
\* the stamp datetime.now().strftime(...) gives.
CompleteRow(row, now) ==
    row @@ ("BP Status" :> bp_status(row["Systolic BP"], row["Diastolic BP"]))
        @@ ("Sugar Status" :> "")
        @@ ("Timestamp" :> now)
        @@ [col \in BlankedColumns |-> <<>>]

\* `if row: ... rows.append(row)`
RowIfAny(row, now) == IF row # None THEN <<CompleteRow(row, now)>> ELSE <<>>

RECURSIVE RowsOf(_, _)
RowsOf(lines, now) ==
    IF lines = <<>> THEN <<>>
    ELSE RowIfAny(parse_handwritten_line(Head(lines)), now) \o RowsOf(Tail(lines), now)

\* def extract_handwritten(text)
extract_handwritten(text, now) == RowsOf(SplitLines(text), now)

\* Pieces of the patterns of extract().
ColonDash    == Cls({":", "-"}, 1, 1)                  \* [:\-]
OptColonDash == Cls({":", "-"}, 0, 1)                  \* [:\-]?
ColonSpaces  == Cls(Space \cup {":"}, 1, Unbounded)    \* [:\s]+
OptS         == Cls({"S"}, 0, 1)                       \* s?
OptDot       == Cls({"."}, 0, 1)                       \* \.?
Decimal      == <<D(2, 3), Opt(<<Ch("."), D(1, 1)>>)>> \* \d{2,3}(?:\.\d)?
Years        == Alt(<<Lit(<<"Y", "E", "A", "R">>) \o <<OptS>>,
                      Lit(<<"Y", "R">>) \o <<OptS>>>>) \* (?:Years?|Yrs?)
MaleFemale   == Alt(<<Lit(<<"M", "A", "L", "E">>),
                      Lit(<<"F", "E", "M", "A", "L", "E">>)>>)
Captured(nodes) == <<Open(1)>> \o nodes \o <<Close(1)>>

\* The patterns of raw_name, in the order extract() tries them; under
\* re.IGNORECASE the two are one pattern.
NamePatterns ==
    <<\* r'PATIENT\s*NAME\s*[:\-]\s*([A-Za-z][^\n\r]{1,60})'
       Lit(<<"P", "A", "T", "I", "E", "N", "T">>) \o <<SP0>> \o Lit(<<"N", "A", "M", "E">>)
       \o <<SP0, ColonDash, SP0>>
       \o Captured(<<Cls(Letters, 1, 1), NCls({"\n", "\r"}, 1, 60)>>),

       \* r'Patient\s*Name\s*[:\-]\s*([A-Za-z][^\n\r]{1,60})'
       Lit(<<"P", "A", "T", "I", "E", "N", "T">>) \o <<SP0>> \o Lit(<<"N", "A", "M", "E">>)
       \o <<SP0, ColonDash, SP0>>
       \o Captured(<<Cls(Letters, 1, 1), NCls({"\n", "\r"}, 1, 60)>>)>>

\* The patterns of f["Age"], in the order extract() tries them.
AgePatterns ==
    <<\* r'AGE\s*[:\-]\s*(\d{1,3})'
       Lit(<<"A", "G", "E">>) \o <<SP0, ColonDash, SP0>> \o Captured(<<D(1, 3)>>),

       \* r'Age\s*/\s*Gender[:\s]+(\d{1,3})'
       Lit(<<"A", "G", "E">>) \o <<SP0, Ch("/"), SP0>>
       \o Lit(<<"G", "E", "N", "D", "E", "R">>) \o <<ColonSpaces>> \o Captured(<<D(1, 3)>>),

       \* r'Age[^\d\n]{0,10}(\d{1,3})\s*(?:Years?|Yrs?)'
       Lit(<<"A", "G", "E">>) \o <<NCls(Digits \cup {"\n"}, 0, 10)>>
       \o Captured(<<D(1, 3)>>) \o <<SP0, Years>>,

       \* r'\b(\d{1,3})\s*(?:Years?|Yrs?)\s*/\s*(?:Male|Female|M\b|F\b)'
       <<WordBoundary>> \o Captured(<<D(1, 3)>>) \o <<SP0, Years, SP0, Ch("/"), SP0>>
       \o <<Alt(<<Lit(<<"M", "A", "L", "E">>), Lit(<<"F", "E", "M", "A", "L", "E">>),
       <<Ch("M"), WordBoundary>>, <<Ch("F"), WordBoundary>>>>)>>>>

\* The patterns of raw_gender, in the order extract() tries them.
GenderPatterns ==
    <<\* r'SEX\s*[:\-]\s*([A-Za-z]+)'
       Lit(<<"S", "E", "X">>) \o <<SP0, ColonDash, SP0>>
       \o Captured(<<Cls(Letters, 1, Unbounded)>>),

       \* r'Gender\s*[:\-]\s*([A-Za-z]+)'
       Lit(<<"G", "E", "N", "D", "E", "R">>) \o <<SP0, ColonDash, SP0>>
       \o Captured(<<Cls(Letters, 1, Unbounded)>>),

       \* r'\d+\s*(?:Years?|Yrs?)?\s*/\s*(Male|Female)'
       <<D(1, Unbounded), SP0, Opt(<<Years>>), SP0, Ch("/"), SP0>> \o Captured(<<MaleFemale>>),

       \* r'\b(Male|Female)\b'
       <<WordBoundary>> \o Captured(<<MaleFemale>>) \o <<WordBoundary>>>>

\* The patterns of f["Height (cm)"].
HeightPatterns ==
    <<\* r'Height[:\s]+(\d{2,3})\s*cm'
       Lit(<<"H", "E", "I", "G", "H", "T">>) \o <<ColonSpaces>> \o Captured(<<D(2, 3)>>)
       \o <<SP0>> \o Lit(<<"C", "M">>),

       \* r'\bHt\.?\s*[:\-]?\s*(\d{2,3})\s*cm'
       <<WordBoundary>> \o Lit(<<"H", "T">>) \o <<OptDot, SP0, OptColonDash, SP0>>
       \o Captured(<<D(2, 3)>>) \o <<SP0>> \o Lit(<<"C", "M">>)>>

\* The patterns of f["Weight (kg)"].
WeightPatterns ==
    <<\* r'Weight[:\s]+(\d{2,3}(?:\.\d)?)\s*kg'
       Lit(<<"W", "E", "I", "G", "H", "T">>) \o <<ColonSpaces>> \o Captured(Decimal)
       \o <<SP0>> \o Lit(<<"K", "G">>),

       \* r'\bWt\.?\s*[:\-]?\s*(\d{2,3}(?:\.\d)?)\s*kg'
       <<WordBoundary>> \o Lit(<<"W", "T">>) \o <<OptDot, SP0, OptColonDash, SP0>>
       \o Captured(Decimal) \o <<SP0>> \o Lit(<<"K", "G">>)>>

\* r'BMI[^\d\n]{0,20}(\d{1,2}\.\d+)'
BmiPattern ==
    Lit(<<"B", "M", "I">>) \o <<NCls(Digits \cup {"\n"}, 0, 20)>>
    \o Captured(<<D(1, 2), Ch("."), D(1, Unbounded)>>)

\* The patterns of sys_val.
SystolicPatterns ==
    <<\* r'Blood\s+Pressure\s+\(Systolic\)\s+(\d{2,3})'
       Lit(<<"B", "L", "O", "O", "D">>) \o <<SP1>> \o Lit(<<"P", "R", "E", "S", "S", "U", "R", "E">>) \o <<SP1, Ch("(")>> \o Lit(<<"S", "Y", "S", "T", "O", "L", "I", "C">>) \o <<Ch(")"), SP1>>
       \o Captured(<<D(2, 3)>>),

       \* r'Systolic\s*(?:BP|Blood\s*Pressure)?\s*[:\-]?\s*(\d{2,3})'
       Lit(<<"S", "Y", "S", "T", "O", "L", "I", "C">>)
       \o <<SP0, Opt(<<Alt(<<Lit(<<"B", "P">>), Lit(<<"B", "L", "O", "O", "D">>) \o <<SP0>> \o Lit(<<"P", "R", "E", "S", "S", "U", "R", "E">>)>>)>>),
       SP0, OptColonDash, SP0>>
       \o Captured(<<D(2, 3)>>)>>

\* The patterns of dia_val.
DiastolicPatterns ==
    <<\* r'Blood\s+Pressure\s+\(Diastolic\)\s+(\d{2,3})'
       Lit(<<"B", "L", "O", "O", "D">>) \o <<SP1>> \o Lit(<<"P", "R", "E", "S", "S", "U", "R", "E">>) \o <<SP1, Ch("(")>> \o Lit(<<"D", "I", "A", "S", "T", "O", "L", "I", "C">>) \o <<Ch(")"), SP1>>
       \o Captured(<<D(2, 3)>>),

       \* r'Diastolic\s*(?:BP|Blood\s*Pressure)?\s*[:\-]?\s*(\d{2,3})'
       Lit(<<"D", "I", "A", "S", "T", "O", "L", "I", "C">>)
       \o <<SP0, Opt(<<Alt(<<Lit(<<"B", "P">>), Lit(<<"B", "L", "O", "O", "D">>) \o <<SP0>> \o Lit(<<"P", "R", "E", "S", "S", "U", "R", "E">>)>>)>>),
       SP0, OptColonDash, SP0>>
       \o Captured(<<D(2, 3)>>)>>

\* r'\b(\d{2,3})\s*/\s*(\d{2,3})\s*(?:mmHg|mm\s*Hg)?'
SlashPattern ==
    <<WordBoundary, Open(1), D(2, 3), Close(1), SP0, Ch("/"), SP0,
    Open(2), D(2, 3), Close(2), SP0,
    Opt(<<Alt(<<Lit(<<"M", "M", "H", "G">>),
    Lit(<<"M", "M">>) \o <<SP0>> \o Lit(<<"H", "G">>)>>)>>)>>

\* The patterns of f["Fasting Sugar (mg/dL)"].
FastingPatterns ==
    <<\* r'BLOOD\s+SUGAR\s*[\(\[]\s*F\s*[\)\]]\s*[:\-]?\s*(\d{2,3}(?:\.\d)?)'
       Lit(<<"B", "L", "O", "O", "D">>) \o <<SP1>> \o Lit(<<"S", "U", "G", "A", "R">>)
       \o <<SP0, Cls({"(", "["}, 1, 1), SP0, Ch("F"), SP0, Cls({")", "]"}, 1, 1),
       SP0, OptColonDash, SP0>>
       \o Captured(Decimal),

       \* r'(?:Fasting|FBS|F\.?B\.?S\.?)\s*(?:Blood\s*)?(?:Sugar|Glucose)\s*[:\-]?\s*(\d{2,3}(?:\.\d)?)'
       <<Alt(<<Lit(<<"F", "A", "S", "T", "I", "N", "G">>), Lit(<<"F", "B", "S">>),
       <<Ch("F"), OptDot, Ch("B"), OptDot, Ch("S"), OptDot>>>>),
       SP0, Opt(Lit(<<"B", "L", "O", "O", "D">>) \o <<SP0>>), Alt(<<Lit(<<"S", "U", "G", "A", "R">>), Lit(<<"G", "L", "U", "C", "O", "S", "E">>)>>), SP0, OptColonDash, SP0>>
       \o Captured(Decimal),

       \* r'Fasting\s+Blood\s+Glucose\s+(\d{2,3}(?:\.\d)?)'
       Lit(<<"F", "A", "S", "T", "I", "N", "G">>) \o <<SP1>> \o Lit(<<"B", "L", "O", "O", "D">>) \o <<SP1>> \o Lit(<<"G", "L", "U", "C", "O", "S", "E">>) \o <<SP1>> \o Captured(Decimal),

       \* r'Fasting\s+Sugar\s*[:\-]?\s*(\d{2,3}(?:\.\d)?)'
       Lit(<<"F", "A", "S", "T", "I", "N", "G">>) \o <<SP1>> \o Lit(<<"S", "U", "G", "A", "R">>) \o <<SP0, OptColonDash, SP0>> \o Captured(Decimal)>>

\* The patterns of f["Post Prandial Sugar (mg/dL)"].
PostPrandialPatterns ==
    <<\* r'BLOOD\s+SUGAR\s*[\(\[]\s*PP\s*[\)\]]\s*[:\-]?\s*(\d{2,3}(?:\.\d)?)'
       Lit(<<"B", "L", "O", "O", "D">>) \o <<SP1>> \o Lit(<<"S", "U", "G", "A", "R">>)
       \o <<SP0, Cls({"(", "["}, 1, 1), SP0, Ch("P"), Ch("P"), SP0, Cls({")", "]"}, 1, 1),
       SP0, OptColonDash, SP0>>
       \o Captured(Decimal),

       \* r'(?:Post\s*Prandial|PPBS|PP\.?B\.?S\.?)\s*(?:Blood\s*)?(?:Sugar|Glucose)?\s*[:\-]?\s*(\d{2,3}(?:\.\d)?)'
       <<Alt(<<Lit(<<"P", "O", "S", "T">>) \o <<SP0>> \o Lit(<<"P", "R", "A", "N", "D", "I", "A", "L">>), Lit(<<"P", "P", "B", "S">>),
       <<Ch("P"), Ch("P"), OptDot, Ch("B"), OptDot, Ch("S"), OptDot>>>>),
       SP0, Opt(Lit(<<"B", "L", "O", "O", "D">>) \o <<SP0>>), Opt(<<Alt(<<Lit(<<"S", "U", "G", "A", "R">>), Lit(<<"G", "L", "U", "C", "O", "S", "E">>)>>)>>),
       SP0, OptColonDash, SP0>>
       \o Captured(Decimal),

       \* r'Post\s+Prandial\s+Glucose\s+(\d{2,3}(?:\.\d)?)'
       Lit(<<"P", "O", "S", "T">>) \o <<SP1>> \o Lit(<<"P", "R", "A", "N", "D", "I", "A", "L">>) \o <<SP1>> \o Lit(<<"G", "L", "U", "C", "O", "S", "E">>) \o <<SP1>> \o Captured(Decimal),

       \* r'Post\s+Prandial\s+Sugar\s*[:\-]?\s*(\d{2,3}(?:\.\d)?)'
       Lit(<<"P", "O", "S", "T">>) \o <<SP1>> \o Lit(<<"P", "R", "A", "N", "D", "I", "A", "L">>) \o <<SP1>> \o Lit(<<"S", "U", "G", "A", "R">>) \o <<SP0, OptColonDash, SP0>>
       \o Captured(Decimal)>>

\* The normalisation of raw_gender in extract().
NormalGender(raw_gender, g) ==
    IF g \in {<<"M">>, <<"M", "A", "L", "E">>} THEN <<"M", "a", "l", "e">>
    ELSE IF g \in {<<"F">>, <<"F", "E", "M", "A", "L", "E">>}
    THEN <<"F", "e", "m", "a", "l", "e">>
    ELSE title(raw_gender)

GenderOf(raw_gender) ==
    IF ~Truthy(raw_gender) THEN None ELSE NormalGender(raw_gender, upper(strip(raw_gender)))

\* "First attempt: explicit systolic/diastolic labels"
LabelledSystolic(text)  == Or(find(SystolicPatterns[1], text), find(SystolicPatterns[2], text))
LabelledDiastolic(text) == Or(find(DiastolicPatterns[1], text), find(DiastolicPatterns[2], text))

\* The fallback assigning without `or`: the variant C9_SlashFallback must tell
\* from FillFromSlash().
FillFromSlashOverwrite(sys_val, dia_val, s, d) ==
    IF 80 <= s /\ s <= 250 /\ 40 <= d /\ d <= 150
    THEN <<str(s), str(d)>>
    ELSE <<sys_val, dia_val>>

\* `if 80 <= s <= 250 and 40 <= d <= 150: sys_val = sys_val or str(s); ...`
FillFromSlash(sys_val, dia_val, s, d) ==
    IF 80 <= s /\ s <= 250 /\ 40 <= d /\ d <= 150
    THEN <<Or(sys_val, str(s)), Or(dia_val, str(d))>>
    ELSE <<sys_val, dia_val>>

\* `if bp_slash: s, d = int(bp_slash.group(1)), int(bp_slash.group(2)) ...`
WithSlash(sys_val, dia_val, bp_slash, text) ==
    IF ~bp_slash.ok THEN <<sys_val, dia_val>>
    ELSE FillFromSlash(sys_val, dia_val, DigitsVal(Group(bp_slash, text, 1)),
                       DigitsVal(Group(bp_slash, text, 2)))

\* "Fallback: NNN/NNN mmHg slash notation": <<sys_val, dia_val>> after the block
\* `if not sys_val or not dia_val: ...`
SlashFallback(sys_val, dia_val, text) ==
    IF Truthy(sys_val) /\ Truthy(dia_val) THEN <<sys_val, dia_val>>
    ELSE WithSlash(sys_val, dia_val, Search(SlashPattern, text, TRUE), text)

\* The dict f of extract(), bp being <<sys_val, dia_val>>
FieldsOf(text, bp) ==
    ("Patient Name" :> clean_name(Or(find(NamePatterns[1], text), find(NamePatterns[2], text))))
    @@ ("Age" :> Or(find(AgePatterns[1], text),
                 Or(find(AgePatterns[2], text),
                 Or(find(AgePatterns[3], text), find(AgePatterns[4], text)))))
    @@ ("Gender" :> GenderOf(Or(find(GenderPatterns[1], text),
                             Or(find(GenderPatterns[2], text),
                             Or(find(GenderPatterns[3], text), find(GenderPatterns[4], text))))))
    @@ ("Height (cm)" :> Or(find(HeightPatterns[1], text), find(HeightPatterns[2], text)))
    @@ ("Weight (kg)" :> Or(find(WeightPatterns[1], text), find(WeightPatterns[2], text)))
    @@ ("BMI" :> find(BmiPattern, text))
    @@ ("Systolic BP" :> bp[1])
    @@ ("Diastolic BP" :> bp[2])
    @@ ("Fasting Sugar (mg/dL)" :>
            Or(find(FastingPatterns[1], text),
            Or(find(FastingPatterns[2], text),
            Or(find(FastingPatterns[3], text), find(FastingPatterns[4], text)))))
    @@ ("Post Prandial Sugar (mg/dL)" :>
            Or(find(PostPrandialPatterns[1], text),
            Or(find(PostPrandialPatterns[2], text),
            Or(find(PostPrandialPatterns[3], text), find(PostPrandialPatterns[4], text)))))

\* def extract(text)
extract(text) ==
    FieldsOf(text, SlashFallback(LabelledSystolic(text), LabelledDiastolic(text), text))

\* ------------------------------------------------------------------------
\* The /scan request handler
\* ------------------------------------------------------------------------

MaxBatch == 2

\* OCR texts of the uploads of the model.

\* 'PATIENT NAME : MD.SAZID AVI DATE : 10.05.202\nAGE : 45 SEX : M\nBLOOD SUGAR (F) : 178 Mg/dl\nBLOOD SUGAR (PP) : 234 Mg/dl'
FormatBReport ==
    <<"P", "A", "T", "I", "E", "N", "T", " ", "N", "A", "M", "E", " ", ":", " ", "M",
      "D", ".", "S", "A", "Z", "I", "D", " ", "A", "V", "I", " ", "D", "A", "T", "E",
      " ", ":", " ", "1", "0", ".", "0", "5", ".", "2", "0", "2", "\n", "A", "G",
      "E", " ", ":", " ", "4", "5", " ", "S", "E", "X", " ", ":", " ", "M", "\n",
      "B", "L", "O", "O", "D", " ", "S", "U", "G", "A", "R", " ", "(", "F", ")", " ",
      ":", " ", "1", "7", "8", " ", "M", "g", "/", "d", "l", "\n", "B", "L", "O",
      "O", "D", " ", "S", "U", "G", "A", "R", " ", "(", "P", "P", ")", " ", ":", " ",
      "2", "3", "4", " ", "M", "g", "/", "d", "l">>

\* 'John Doe 150/95 72 stable\nJane Roe 118/76 68 fine'
TwoLineVitals ==
    <<"J", "o", "h", "n", " ", "D", "o", "e", " ", "1", "5", "0", "/", "9", "5", " ",
      "7", "2", " ", "s", "t", "a", "b", "l", "e", "\n", "J", "a", "n", "e", " ",
      "R", "o", "e", " ", "1", "1", "8", "/", "7", "6", " ", "6", "8", " ", "f", "i",
      "n", "e">>

\* 'Al 150/95 72 weak\nBo 118/76\n7\nCy 95|58 00'
VitalsLog ==
    <<"A", "l", " ", "1", "5", "0", "/", "9", "5", " ", "7", "2", " ", "w", "e", "a",
      "k", "\n", "B", "o", " ", "1", "1", "8", "/", "7", "6", "\n", "7", "\n", "C",
      "y", " ", "9", "5", "|", "5", "8", " ", "0", "0">>

\* '12/34 56/780 A 99\\30'
UnreadableLog ==
    <<"1", "2", "/", "3", "4", " ", "5", "6", "/", "7", "8", "0", " ", "A", " ", "9",
      "9", "\\", "3", "0">>

\* 'Patient Name: Al\n120/80 130/85 110/70'
LabelledLog ==
    <<"P", "a", "t", "i", "e", "n", "t", " ", "N", "a", "m", "e", ":", " ", "A", "l",
      "\n", "1", "2", "0", "/", "8", "0", " ", "1", "3", "0", "/", "8", "5", " ",
      "1", "1", "0", "/", "7", "0">>

\* ''
BlankPage ==
    <<>>

\* 'Systolic BP: 130 Diastolic: 85\nFBS Sugar 99'
InlineReport ==
    <<"S", "y", "s", "t", "o", "l", "i", "c", " ", "B", "P", ":", " ", "1", "3", "0",
      " ", "D", "i", "a", "s", "t", "o", "l", "i", "c", ":", " ", "8", "5", "\n",
      "F", "B", "S", " ", "S", "u", "g", "a", "r", " ", "9", "9">>

OcrTexts ==
    {FormatBReport, TwoLineVitals, VitalsLog, UnreadableLog, LabelledLog, BlankPage,
     InlineReport}

\* What ocr_image_bytes() does with an upload: it raises (requests errors,
\* ValueError(ErrorMessage)) or returns the raw text.
OcrOutcomes ==
    {[raises |-> TRUE, error |-> "OCR failed"]}
    \cup {[raises |-> FALSE, text |-> t] : t \in OcrTexts}

\* The i-th upload of a request: an upload without a file name, an empty
\* file, or an image with its OCR outcome.
FileNames == <<"scan1.png", "scan2.png", "scan3.png", "scan4.png">>

UploadsAt(i) ==
    {[filename |-> "", empty |-> FALSE, ocr |-> [raises |-> TRUE, error |-> "OCR failed"]],
     [filename |-> FileNames[i], empty |-> TRUE,
      ocr |-> [raises |-> TRUE, error |-> "OCR failed"]]}
    \cup {[filename |-> FileNames[i], empty |-> FALSE, ocr |-> o] : o \in OcrOutcomes}

Batches ==
    UNION {{b \in [1..n -> UNION {UploadsAt(i) : i \in 1..n}] :
               \A i \in 1..n : b[i] \in UploadsAt(i)} : n \in 0..MaxBatch}

\* datetime.now().strftime("%d/%m/%Y %H:%M:%S") at two readings of the clock,
\* in the order of time
Clock == <<"03/11/2026 10:00:00", "03/11/2026 10:00:01">>

\* The clock readings of n calls one after the other.
Stampings(n) ==
    {st \in [1..n -> 1..Len(Clock)] : \A k \in 1..(n - 1) : st[k] <= st[k + 1]}

\* The helpers tabulated over the texts of the model, so that a text is
\* parsed once and not at every step of every request.
IsHandwrittenTable == [t \in OcrTexts |-> is_handwritten_table(t)] @@ <<>>

ExtractHandwritten ==
    [t \in OcrTexts |->
        IF IsHandwrittenTable[t] THEN extract_handwritten(t, Clock[1]) ELSE <<>>] @@ <<>>

Extract ==
    [t \in OcrTexts |-> IF IsHandwrittenTable[t] THEN <<>> ELSE extract(t)] @@ <<>>

\* The rows of extract_handwritten(), the clock read once for each row.
Stamped(rows, st) ==
    [k \in 1..Len(rows) |-> [rows[k] EXCEPT !["Timestamp"] = Clock[st[k]]]]

\* The printed branch of scan(): the fields of extract() with the two statuses
\* and the stamp.
PrintedFields(fields, now) ==
    ("BP Status" :> bp_status(fields["Systolic BP"], fields["Diastolic BP"]))
    @@ ("Sugar Status" :> sugar_status(fields["Fasting Sugar (mg/dL)"],
                                       fields["Post Prandial Sugar (mg/dL)"]))
    @@ ("Timestamp" :> now)
    @@ fields

\* The dicts scan() appends to results.
EmptyFileResult(f) == [filename |-> f.filename, success |-> FALSE, error |-> "Empty file"]

ErrorResult(f) == [filename |-> f.filename, success |-> FALSE, error |-> f.ocr.error]

HandwrittenResult(f, rows) ==
    [filename |-> f.filename, success |-> TRUE, mode |-> "handwritten", rows |-> rows,
     count |-> Len(rows)]

NoRowsResult(f) ==
    [filename |-> f.filename, success |-> FALSE,
     error |-> "Could not parse handwritten table rows"]

PrintedResult(f, fields) ==
    [filename |-> f.filename, success |-> TRUE, mode |-> "printed", data |-> fields]

NoResponse == [status |-> 0]

\* scan() is past its three early returns and has not returned.
Running ==
    /\ response = NoResponse
    /\ request.method # "OPTIONS"
    /\ request.has_images
    /\ request.key

\* for file in request.files.getlist("images"):
InLoop == Running /\ idx <= Len(request.files)

file == request.files[idx]

\* if request.method == "OPTIONS": return jsonify({}), 200
ScanOptions ==
    /\ response = NoResponse
    /\ request.method = "OPTIONS"
    /\ response' = [status |-> 200, body |-> "{}"]
    /\ UNCHANGED <<request, idx, results, call, ret>>

\* if "images" not in request.files: return jsonify({"error": ...}), 400
ScanNoImages ==
    /\ response = NoResponse
    /\ request.method # "OPTIONS"
    /\ ~request.has_images
    /\ response' = [status |-> 400, error |-> "No images in request"]
    /\ UNCHANGED <<request, idx, results, call, ret>>

\* if not OCR_API_KEY: return jsonify({"error": ...}), 500
ScanNoKey ==
    /\ response = NoResponse
    /\ request.method # "OPTIONS"
    /\ request.has_images
    /\ ~request.key
    /\ response' = [status |-> 500, error |-> "OCR_API_KEY not configured"]
    /\ UNCHANGED <<request, idx, results, call, ret>>

\* if not file.filename: continue
ScanSkipUnnamed ==
    /\ InLoop
    /\ file.filename = ""
    /\ idx' = idx + 1
    /\ UNCHANGED <<request, results, response, call, ret>>

\* The empty file skipped without a result: the variant
\* C1_OneResultPerNamedUpload must tell from ScanEmptyFile.
ScanEmptyFileDropped ==
    /\ InLoop
    /\ file.filename # ""
    /\ file.empty
    /\ idx' = idx + 1
    /\ UNCHANGED <<request, results, response, call, ret>>

\* if not img_bytes: results.append({... "error": "Empty file"}); continue
ScanEmptyFile ==
    /\ InLoop
    /\ file.filename # ""
    /\ file.empty
    /\ results' = Append(results, EmptyFileResult(file))
    /\ idx' = idx + 1
    /\ UNCHANGED <<request, response, call, ret>>

\* The OCR error leaving the loop, as without the try block: the variant
\* C2_FaultsIsolated must tell from ScanOcrError.
ScanOcrErrorAborts ==
    /\ InLoop
    /\ file.filename # ""
    /\ ~file.empty
    /\ file.ocr.raises
    /\ response' = [status |-> 500, error |-> file.ocr.error]
    /\ UNCHANGED <<request, idx, results, call, ret>>

\* ocr_image_bytes() raises: except Exception as e: results.append({... str(e)})
ScanOcrError ==
    /\ InLoop
    /\ file.filename # ""
    /\ ~file.empty
    /\ file.ocr.raises
    /\ results' = Append(results, ErrorResult(file))
    /\ idx' = idx + 1
    /\ UNCHANGED <<request, response, call, ret>>

\* raw_text = ocr_image_bytes(img_bytes, file.filename) returned
GotText == InLoop /\ file.filename # "" /\ ~file.empty /\ ~file.ocr.raises

\* if is_handwritten_table(raw_text): rows = extract_handwritten(raw_text); if rows:
ScanHandwritten ==
    /\ GotText
    /\ IsHandwrittenTable[file.ocr.text]
    /\ ExtractHandwritten[file.ocr.text] # <<>>
    /\ \E st \in Stampings(Len(ExtractHandwritten[file.ocr.text])) :
          results' = Append(results,
                            HandwrittenResult(file,
                                              Stamped(ExtractHandwritten[file.ocr.text], st)))
    /\ idx' = idx + 1
    /\ UNCHANGED <<request, response, call, ret>>

\* ... else: results.append({... "error": "Could not parse handwritten table rows"})
ScanHandwrittenNoRows ==
    /\ GotText
    /\ IsHandwrittenTable[file.ocr.text]
    /\ ExtractHandwritten[file.ocr.text] = <<>>
    /\ results' = Append(results, NoRowsResult(file))
    /\ idx' = idx + 1
    /\ UNCHANGED <<request, response, call, ret>>

\* else: fields = extract(raw_text); ... results.append({... "mode": "printed"})
ScanPrinted ==
    /\ GotText
    /\ ~IsHandwrittenTable[file.ocr.text]
    /\ \E k \in 1..Len(Clock) :
          results' = Append(results,
                            PrintedResult(file, PrintedFields(Extract[file.ocr.text],
                                                              Clock[k])))
    /\ idx' = idx + 1
    /\ UNCHANGED <<request, response, call, ret>>

\* return jsonify({"results": results})
ScanReturn ==
    /\ Running
    /\ idx > Len(request.files)
    /\ response' = [status |-> 200, results |-> results]
    /\ UNCHANGED <<request, idx, results, call, ret>>

\* No helper is called on its own while a request is served.
NoCall == [fn |-> "none"]
NoRet == [done |-> FALSE]

Init ==
    /\ request \in [method : {"POST", "OPTIONS"}, has_images : BOOLEAN, key : BOOLEAN,
                    files : Batches]
    /\ idx = 1
    /\ results = <<>>
    /\ response = NoResponse
    /\ call = NoCall
    /\ ret = NoRet

Next ==
    \/ ScanOptions
    \/ ScanNoImages
    \/ ScanNoKey
    \/ ScanSkipUnnamed
    \/ ScanEmptyFile
    \/ ScanOcrError
    \/ ScanHandwritten
    \/ ScanHandwrittenNoRows
    \/ ScanPrinted
    \/ ScanReturn

Spec == Init /\ [][Next]_vars

\* ------------------------------------------------------------------------
\* The helpers called on their own
\* ------------------------------------------------------------------------

\* No request is being served.
NoRequest == [method |-> "NONE", has_images |-> FALSE, key |-> FALSE, files |-> <<>>]

\* A helper is about to be called with the arguments of `call`.
Calling(calls) ==
    /\ request = NoRequest
    /\ idx = 1
    /\ results = <<>>
    /\ response = NoResponse
    /\ call \in calls
    /\ ret = NoRet

\* The helper returns v.
Return(v) ==
    /\ ~ret.done
    /\ ret' = [done |-> TRUE, val |-> v]
    /\ UNCHANGED <<request, idx, results, response, call>>

Returned(fn) == call.fn = fn /\ ret.done

\* bp_status(s, d) on the readings 0..MaxReading and on values int() reads
\* differently or refuses.
MaxReading == 250

OddReadings ==
    {None,
     <<>>,
     <<"a", "b", "c">>,
     <<"1", "2", ".", "5">>,
     <<" ", "1", "2", "0", " ">>,
     <<"+", "8", "5">>,
     <<"-", "5">>,
     <<"1", "_", "0">>,
     <<"1", "_", "_", "0">>,
     <<"\n", "9", "0", "\t">>,
     <<"1", "e", "2">>}

BpInputs == {str(n) : n \in 0..MaxReading} \cup OddReadings

InitBpStatus == Calling({[fn |-> "bp_status", s |-> s, d |-> d] : s, d \in BpInputs})

CallBpStatus == call.fn = "bp_status" /\ Return(bp_status(call.s, call.d))

SpecBpStatus == InitBpStatus /\ [][CallBpStatus]_vars

\* sugar_status(f, p) on the readings 0..MaxSugar and on values float() reads
\* differently or refuses.
MaxSugar == 234

OddSugars ==
    {None,
     <<>>,
     <<"a", "b", "c">>,
     <<" ", "1", "7", "8", " ">>,
     <<"9", "9", ".", "9">>,
     <<"1", "0", "0", ".", "0">>,
     <<"1", "2", "5", ".", "9">>,
     <<"1", "2", "6", ".", "0">>,
     <<"1", "3", "9", ".", "9">>,
     <<"1", "4", "0", ".", "5">>,
     <<"1", "9", "9", ".", "9">>,
     <<"2", "0", "0", ".", "0">>,
     <<"1", "e", "2">>,
     <<"1", ".", "2", "6", "e", "2">>,
     <<"2", "0", "0", "0", "e", "-", "1">>,
     <<".", "5">>,
     <<"5", ".">>,
     <<"2", "_", "0", "0">>,
     <<"-", "1", "3", "0">>,
     <<"+", "2", "3", "4">>,
     <<"n", "a", "n">>,
     <<"i", "n", "f">>,
     <<"-", "i", "n", "f">>,
     <<"I", "n", "f", "i", "n", "i", "t", "y">>,
     <<"1", "e">>,
     <<"1", "2", ",", "5">>}

SugarInputs == {str(n) : n \in 0..MaxSugar} \cup OddSugars

InitSugarStatus == Calling({[fn |-> "sugar_status", f |-> f, p |-> p] : f, p \in SugarInputs})

CallSugarStatus == call.fn = "sugar_status" /\ Return(sugar_status(call.f, call.p))

SpecSugarStatus == InitSugarStatus /\ [][CallSugarStatus]_vars

\* clean_name(raw) on None, on every string of up to MaxNameLen characters of
\* NameAlphabet and on some longer names.
MaxNameLen == 6

NameAlphabet == {"I", "d", ":", " ", "1"}

LongNames ==
    {<<"M", "D", ".", "S", "A", "Z", "I", "D", " ", "A", "V", "I", " ", "D", "A", "T", "E", " ", ":", " ", "1", "0", ".", "0", "5", ".", "2", "0", "2">>,
     <<"M", "o", "h", "a", "m", "m", "e", "d", " ", "A", "b", "d", "u", "l", " ", "K", "a", "r", "e", "e", "m">>,
     <<"A", "l", " ", "R", "E", "P", "O", "R", "T", " ", "7">>,
     <<"J", "o", " ", " ", "D", "O", "B", "=", " ", "1", "/", "2">>,
     <<"A", " ", "D", ".", "O", ".", "B">>,
     <<"X", " ", "r", "e", "f", ".", " ", "1", "2">>,
     <<"K", "-", "9", " ", "S", "a", "m", "p", "l", "e", "-">>,
     <<"A", "1", " ", "R", "E", "P", "O", "R", "T">>,
     <<"B", "o", " ", "a", "g", "e", " ", ":", " ", "4", "5", " ", "I", "D", ":", " ", "7">>,
     <<"C", "y", " ", "D", "a", "t", "e">>,
     <<" ", "\t", " ">>,
     <<"D", "i", " ", "1", "0", ".", "0", "5", ".", " ", ":">>,
     <<"E", "d", "\t", "s", "a", "m", "p", "l", "e", " ", "r", "e", "p", "o", "r", "t">>}

NameInputs ==
    {None} \cup UNION {[1..n -> NameAlphabet] : n \in 0..MaxNameLen} \cup LongNames

InitCleanName == Calling({[fn |-> "clean_name", raw |-> x] : x \in NameInputs})

CallCleanName == call.fn = "clean_name" /\ Return(clean_name(call.raw))

SpecCleanName == InitCleanName /\ [][CallCleanName]_vars

\* extract(text) on texts of a labelled systolic value or none, a labelled
\* diastolic value or none, and a slash pair or none.
SystolicLabels ==
    {<<>>,
     <<"S", "y", "s", "t", "o", "l", "i", "c", " ", "B", "P", ":", " ", "1", "3", "0">>,
     <<"B", "l", "o", "o", "d", " ", "P", "r", "e", "s", "s", "u", "r", "e", " ", "(", "S", "y", "s", "t", "o", "l", "i", "c", ")", " ", " ", "1", "4", "2", " ", "m", "m", "H", "g">>,
     <<"S", "y", "s", "t", "o", "l", "i", "c", " ", "7">>}

DiastolicLabels ==
    {<<>>,
     <<"D", "i", "a", "s", "t", "o", "l", "i", "c", ":", " ", "8", "5">>,
     <<"B", "l", "o", "o", "d", " ", "P", "r", "e", "s", "s", "u", "r", "e", " ", "(", "D", "i", "a", "s", "t", "o", "l", "i", "c", ")", " ", "9", "1", " ", "m", "m", "H", "g">>,
     <<"d", "i", "a", "s", "t", "o", "l", "i", "c", " ", "b", "l", "o", "o", "d", " ", "p", "r", "e", "s", "s", "u", "r", "e", " ", "-", " ", "3", "0", "0">>}

SlashReadings == {79, 80, 120, 250, 251} \X {39, 40, 80, 150, 151}

SlashTexts ==
    {<<>>,
     <<"1", "0", "/", "0", "5", "/", "2", "0", "2", "0", " ", "9", "5", "/", "6", "0">>,
     <<"R", "e", "f", " ", "9", "/", "8", "0">>,
     <<"B", "P", " ", "1", "1", "8", " ", "7", "6">>}
    \cup {str(r[1]) \o <<"/">> \o str(r[2]) : r \in SlashReadings}
    \cup {<<"B", "P", " ">> \o str(r[1]) \o <<" ", "/", " ">> \o str(r[2])
          \o <<" ", "m", "m", "H", "g">> : r \in SlashReadings}

ExtractInputs ==
    {a \o <<"\n">> \o b \o <<"\n">> \o c :
        a \in SystolicLabels, b \in DiastolicLabels, c \in SlashTexts}

InitExtract == Calling({[fn |-> "extract", text |-> t] : t \in ExtractInputs})

CallExtract == call.fn = "extract" /\ Return(extract(call.text))

SpecExtract == InitExtract /\ [][CallExtract]_vars

\* ------------------------------------------------------------------------
\* Properties
\* ------------------------------------------------------------------------

Named(f) == f.filename # ""

\* The uploads scan() has gone past, and the place in `results` of the result
\* of the i-th upload.
Passed == 1..(idx - 1)

ResultIndex(i) == Cardinality({k \in 1..i : Named(request.files[k])})

\* scan() has returned for a request that reached the loop.
Finished ==
    /\ response # NoResponse
    /\ request.method = "POST"
    /\ request.has_images
    /\ request.key

ReturnedResults == "results" \in DOMAIN response

\* C1 (as amended): whenever scan() reaches its loop, `results` holds exactly
\* one result for every upload with a file name that the loop has gone past, in
\* the order of the uploads, each tagged success or failure, an upload without
\* a file name getting none; and the results returned are those of all uploads.
C1_OneResultPerNamedUpload ==
    /\ Len(results) = ResultIndex(idx - 1)
    /\ \A i \in Passed :
          Named(request.files[i]) =>
              /\ results[ResultIndex(i)].filename = request.files[i].filename
              /\ results[ResultIndex(i)].success \in BOOLEAN
    /\ Finished => /\ ReturnedResults
                   /\ idx = Len(request.files) + 1
                   /\ response.results = results

\* A batch whose first upload has no file name was answered with one result.
C1_Witness ==
    /\ Finished
    /\ ReturnedResults
    /\ Len(request.files) = 2
    /\ ~Named(request.files[1])
    /\ Named(request.files[2])
    /\ Len(response.results) = 1
    /\ response.results[1].filename = request.files[2].filename

\* C1 (as claimed): the results returned hold exactly one result per upload of
\* the batch, in the order of the uploads.
C1_OneResultPerUpload ==
    ReturnedResults =>
        /\ Len(response.results) = Len(request.files)
        /\ \A i \in 1..Len(request.files) :
              response.results[i].filename = request.files[i].filename

\* A result without its time stamps.
Untimed(r) ==
    IF ~r.success THEN r
    ELSE IF r.mode = "printed" THEN [r EXCEPT !.data = [@ EXCEPT !["Timestamp"] = ""]]
    ELSE [r EXCEPT !.rows = [k \in 1..Len(@) |-> [@[k] EXCEPT !["Timestamp"] = ""]]]

\* The upload raises a fault, and the reason of the fault.
Faulty(f) == Named(f) /\ (f.empty \/ f.ocr.raises)

Reason(f) == IF f.empty THEN "Empty file" ELSE f.ocr.error

\* The result of upload f in a batch of its own, the clock read at Clock[1].
Alone(f) ==
    IF f.empty THEN EmptyFileResult(f)
    ELSE IF f.ocr.raises THEN ErrorResult(f)
    ELSE IF ~IsHandwrittenTable[f.ocr.text]
    THEN PrintedResult(f, PrintedFields(Extract[f.ocr.text], Clock[1]))
    ELSE IF ExtractHandwritten[f.ocr.text] = <<>> THEN NoRowsResult(f)
    ELSE HandwrittenResult(f, ExtractHandwritten[f.ocr.text])

\* C2: when scan() has returned for a request that reached the loop, every
\* upload that raised a fault (an empty file, an OCR error) has a failure result
\* carrying the reason, and every later upload with a file name has the result
\* it has in a batch of its own, time stamps aside.
C2_FaultsIsolated ==
    Finished =>
        /\ ReturnedResults
        /\ \A i \in 1..Len(request.files) :
              Faulty(request.files[i]) =>
                  /\ ResultIndex(i) <= Len(response.results)
                  /\ ~response.results[ResultIndex(i)].success
                  /\ response.results[ResultIndex(i)].error = Reason(request.files[i])
                  /\ \A j \in (i + 1)..Len(request.files) :
                        Named(request.files[j]) =>
                            /\ ResultIndex(j) <= Len(response.results)
                            /\ Untimed(response.results[ResultIndex(j)])
                                   = Untimed(Alone(request.files[j]))

\* An OCR error on the first upload was followed by a printed result for the
\* second.
C2_Witness ==
    /\ Finished
    /\ ReturnedResults
    /\ Len(request.files) = 2
    /\ Named(request.files[1]) /\ ~request.files[1].empty /\ request.files[1].ocr.raises
    /\ Len(response.results) = 2
    /\ ~response.results[1].success
    /\ response.results[2].success
    /\ response.results[2].mode = "printed"

\* What C3 says of the band `out` of the integers s and d.
C3_Band(s, d, out) ==
    /\ out \in {"High", "Elevated", "Low", "Normal"}
    /\ (out = "High") <=> (s >= 140 \/ d >= 90)
    /\ (out = "Elevated") <=> (~(s >= 140 \/ d >= 90) /\ (s >= 130 \/ d >= 80))
    /\ (out = "Low") <=>
           (~(s >= 140 \/ d >= 90) /\ ~(s >= 130 \/ d >= 80) /\ (s < 90 \/ d < 60))

C3_Says(sv, dv, out) == IF sv.ok /\ dv.ok THEN C3_Band(sv.val, dv.val, out) ELSE out = ""

\* C3: bp_status(s, d) is, when both s and d parse as integers, the band of
\* the first rule that matches in the order High (s >= 140 or d >= 90),
\* Elevated (s >= 130 or d >= 80), Low (s < 90 or d < 60), else Normal; and is
\* the empty string when either is absent or no integer.
C3_BpStatus == Returned("bp_status") => C3_Says(int(call.s), int(call.d), ret.val)

\* bp_status("200", "40") returned "High".
C3_Witness ==
    /\ Returned("bp_status")
    /\ call.s = <<"2", "0", "0">>
    /\ call.d = <<"4", "0">>
    /\ ret.val = "High"

\* What C4 says of the parts of a fasting reading fv and of a post-prandial
\* reading pv.
C4_Fasting(fv) ==
    IF ~fv.ok THEN <<>>
    ELSE IF FloatGE(fv, 126) THEN <<"Fasting: Diabetic">>
    ELSE IF FloatGE(fv, 100) /\ ~FloatGE(fv, 126) THEN <<"Fasting: Pre-Diabetic">>
    ELSE <<"Fasting: Normal">>

C4_PP(pv) ==
    IF ~pv.ok THEN <<>>
    ELSE IF FloatGE(pv, 200) THEN <<"PP: Diabetic">>
    ELSE IF FloatGE(pv, 140) /\ ~FloatGE(pv, 200) THEN <<"PP: Pre-Diabetic">>
    ELSE <<"PP: Normal">>

C4_Joined(fs, ps) ==
    IF fs # <<>> /\ ps # <<>> THEN fs[1] \o " | " \o ps[1]
    ELSE IF fs # <<>> THEN fs[1]
    ELSE IF ps # <<>> THEN ps[1]
    ELSE ""

\* C4: sugar_status(f, p) is the fasting part (Diabetic from 126, Pre-Diabetic
\* from 100, else Normal) when f parses as a number and the post-prandial part
\* (Diabetic from 200, Pre-Diabetic from 140, else Normal) when p parses, each
\* whether or not the other parses, joined with " | ", fasting first; the empty
\* string when neither parses.
C4_SugarStatus ==
    Returned("sugar_status") =>
        ret.val = C4_Joined(C4_Fasting(float(call.f)), C4_PP(float(call.p)))

\* sugar_status("abc", "234") returned the post-prandial part alone.
C4_Witness ==
    /\ Returned("sugar_status")
    /\ call.f = <<"a", "b", "c">>
    /\ call.p = <<"2", "3", "4">>
    /\ ret.val = "PP: Diabetic"

\* A printed result with Fasting Sugar "178" and Post Prandial Sugar "234".
FormatBSugars(r) ==
    /\ r.success
    /\ r.mode = "printed"
    /\ r.data["Fasting Sugar (mg/dL)"] = <<"1", "7", "8">>
    /\ r.data["Post Prandial Sugar (mg/dL)"] = <<"2", "3", "4">>

\* C5 (as amended): a printed result whose Fasting Sugar is "178" and whose
\* Post Prandial Sugar is "234" has the Sugar Status
\* "Fasting: Diabetic | PP: Diabetic".
C5_FormatBSugarStatus ==
    \A i \in 1..Len(results) :
        FormatBSugars(results[i]) =>
            results[i].data["Sugar Status"] = "Fasting: Diabetic | PP: Diabetic"

\* The Format-B report of the model was scanned in printed mode.
C5_Witness ==
    \E i \in 1..Len(results) :
        /\ FormatBSugars(results[i])
        /\ results[i].data["Patient Name"] = <<"M", "D", ".", "S", "A", "Z", "I", "D", " ", "A", "V", "I">>

\* C5 (as claimed): a printed result whose Fasting Sugar is "178" and whose
\* Post Prandial Sugar is "234" has the Sugar Status
\* "Fasting: Pre-Diabetic | PP: Pre-Diabetic".
C5_FormatBPreDiabetic ==
    \A i \in 1..Len(results) :
        FormatBSugars(results[i]) =>
            results[i].data["Sugar Status"] = "Fasting: Pre-Diabetic | PP: Pre-Diabetic"

\* The field names of a FieldSet.
FieldNames ==
    {"Patient Name", "Age", "Gender", "Height (cm)", "Weight (kg)", "BMI",
     "Systolic BP", "Diastolic BP", "BP Status", "Fasting Sugar (mg/dL)",
     "Post Prandial Sugar (mg/dL)", "Sugar Status", "Timestamp"}

\* The text has no "Patient Name :" label and at least 3 BP-shaped tokens.
LooksHandwritten(text) ==
    /\ ~Search(PatientNameLabel, text, TRUE).ok
    /\ CountFrom(BpToken, text, 1, FALSE) >= 3

\* The lines of the text that produce a row.
RowLines(text) ==
    {n \in 1..Len(SplitLines(text)) : parse_handwritten_line(SplitLines(text)[n]) # None}

\* What C6 says of the result r of an upload with the OCR text `text`.
C6_Says(text, r) ==
    IF LooksHandwritten(text)
    THEN IF RowLines(text) # {}
         THEN /\ r.success
              /\ r.mode = "handwritten"
              /\ Len(r.rows) = Cardinality(RowLines(text))
              /\ "data" \notin DOMAIN r
         ELSE /\ ~r.success
              /\ "data" \notin DOMAIN r
    ELSE /\ r.success
         /\ r.mode = "printed"
         /\ DOMAIN r.data = FieldNames

\* The upload passed whose OCR text was obtained.
Read(f) == Named(f) /\ ~f.empty /\ ~f.ocr.raises

\* C6: the result of every upload whose OCR text was obtained is decided by
\* the text: with no "Patient Name :" label and at least 3 BP-shaped tokens it
\* is a handwritten success with the rows of its lines when a line produces a
\* row and a failure when none does, never a printed result; otherwise it is a
\* printed success with one FieldSet.
C6_ModeByText ==
    \A i \in Passed :
        Read(request.files[i]) =>
            C6_Says(request.files[i].ocr.text, results[ResultIndex(i)])

\* A text with a label and three BP tokens went the printed way after a text
\* with three BP tokens and no row failed the handwritten way.
C6_Witness ==
    /\ idx = 3
    /\ request.files[1].ocr = [raises |-> FALSE, text |-> UnreadableLog]
    /\ request.files[2].ocr = [raises |-> FALSE, text |-> LabelledLog]
    /\ Len(results) = 2
    /\ ~results[1].success
    /\ results[2].success
    /\ results[2].mode = "printed"

\* The fields extract() sets.
ExtractedFields == FieldNames \ {"BP Status", "Sugar Status", "Timestamp"}

\* No value found is shown as "" or "0".
NoDefault(v) == v \notin {<<>>, <<"0">>}

\* C7: in every record of either extractor a field without a value is the
\* absent marker and never "" or "0"; every handwritten row has Age, Gender,
\* Height, Weight, BMI, Fasting Sugar and Post Prandial Sugar absent, and a
\* missing pulse absent.
C7_AbsentNeverDefaulted ==
    \A i \in 1..Len(results) :
        results[i].success =>
            IF results[i].mode = "printed"
            THEN \A fld \in ExtractedFields : NoDefault(results[i].data[fld])
            ELSE \A k \in 1..Len(results[i].rows) :
                    /\ \A col \in BlankedColumns : results[i].rows[k][col] = None
                    /\ NoDefault(results[i].rows[k]["Pulse / PR (bpm)"])

\* The n-th smallest member of a set of numbers.
Nth(set, n) == CHOOSE x \in set : Cardinality({y \in set : y < x}) = n - 1

\* What C10 says of the pulse of a row, pr_match being the first standalone
\* 2-3-digit number in the text after the BP token.
C10_Pulse(row, pr_match, after_bp) ==
    IF pr_match.ok
    THEN row["Pulse / PR (bpm)"] = str(DigitsVal(Group(pr_match, after_bp, 1)))
    ELSE row["Pulse / PR (bpm)"] = <<>>

\* What C10 says of a row and the BP token bp of the line it comes from.
C10_Row(row, line, bp) ==
    /\ bp.ok
    /\ DigitsVal(Group(bp, line, 1)) \in 60..250
    /\ DigitsVal(Group(bp, line, 2)) \in 40..150
    /\ row["Systolic BP"] = str(DigitsVal(Group(bp, line, 1)))
    /\ row["Diastolic BP"] = str(DigitsVal(Group(bp, line, 2)))
    /\ Len(row["Patient Name"]) >= 2
    /\ C10_Pulse(row, Search(PulseToken, SubSeq(line, bp.end, Len(line)), FALSE),
                 SubSeq(line, bp.end, Len(line)))

C10_RowOfLine(row, line) == C10_Row(row, line, Search(BpTokenGroups, line, FALSE))

\* What C10 says of the rows of a text: they come from lines of the text, one
\* row from a line, in the order of the lines.
C10_Says(rows, lines) ==
    \E from \in SUBSET (1..Len(lines)) :
        /\ Cardinality(from) = Len(rows)
        /\ \A n \in 1..Len(rows) : C10_RowOfLine(rows[n], strip(lines[Nth(from, n)]))

\* C10: the rows of a handwritten result come one from a line at most, in the
\* order of the lines, each from a line holding a BP token with systolic in
\* 60..250 and diastolic in 40..150, with a name of 2 characters or more, and
\* with the first standalone 2-3-digit number after the BP token as its pulse,
\* the pulse empty only when no such number follows.
C10_RowsOfLines ==
    \A i \in Passed :
        (Read(request.files[i]) /\ results[ResultIndex(i)].success
            /\ results[ResultIndex(i)].mode = "handwritten") =>
            C10_Says(results[ResultIndex(i)].rows, SplitLines(request.files[i].ocr.text))

\* What C8 says of clean_name()'s output.
C8_Clean(out) ==
    out # None =>
        /\ ~Search(NoiseKeywords, out, TRUE).ok
        /\ out # <<>> =>
               out[Len(out)] \notin Space \cup Digits \cup {":", ".", "/", "-"}

\* C8: clean_name(clean_name(x)) = clean_name(x) for every string x and for
\* None; the output holds no trailing-field keyword preceded by whitespace and
\* ends in no whitespace, digit, colon, period, slash or hyphen.
C8_CleanNameIdempotent ==
    Returned("clean_name") => /\ clean_name(ret.val) = ret.val
                              /\ C8_Clean(ret.val)

\* clean_name() cut the name of the Format-B report at its DATE keyword.
C8_Witness ==
    /\ Returned("clean_name")
    /\ Search(NoiseKeywords, call.raw, TRUE).ok
    /\ ret.val = <<"M", "D", ".", "S", "A", "Z", "I", "D", " ", "A", "V", "I">>

\* The slash pair bp_slash of the text is one the fallback accepts.
Accepted(bp_slash, text) ==
    /\ bp_slash.ok
    /\ DigitsVal(Group(bp_slash, text, 1)) \in 80..250
    /\ DigitsVal(Group(bp_slash, text, 2)) \in 40..150

\* What C9 says of the field `out`, given the labelled value and the number g
\* of the slash pair's group.
C9_Field(out, labelled, bp_slash, text, g, consulted) ==
    IF Truthy(labelled) THEN out = labelled
    ELSE IF consulted /\ Accepted(bp_slash, text)
    THEN out = str(DigitsVal(Group(bp_slash, text, g)))
    ELSE out = labelled

C9_Says(f, sys_val, dia_val, bp_slash, text) ==
    /\ C9_Field(f["Systolic BP"], sys_val, bp_slash, text, 1,
                ~Truthy(sys_val) \/ ~Truthy(dia_val))
    /\ C9_Field(f["Diastolic BP"], dia_val, bp_slash, text, 2,
                ~Truthy(sys_val) \/ ~Truthy(dia_val))

\* C9: in extract() a systolic or diastolic value found by the labelled
\* patterns is the value of the field; the slash pair is used only when one of
\* the two is absent, only when its systolic is in 80..250 and its diastolic
\* in 40..150, and then for the absent field(s) alone; with the pair out of
\* bounds both fields keep the labelled values.
C9_SlashFallback ==
    Returned("extract") =>
        C9_Says(ret.val, LabelledSystolic(call.text), LabelledDiastolic(call.text),
                Search(SlashPattern, call.text, TRUE), call.text)

\* The labelled systolic value was kept and the diastolic value filled from an
\* accepted slash pair with another systolic value.
C9_Witness ==
    /\ Returned("extract")
    /\ Truthy(LabelledSystolic(call.text))
    /\ ~Truthy(LabelledDiastolic(call.text))
    /\ Accepted(Search(SlashPattern, call.text, TRUE), call.text)
    /\ ret.val["Systolic BP"] = <<"1", "3", "0">>
    /\ ret.val["Diastolic BP"] = <<"8", "0">>
    /\ Group(Search(SlashPattern, call.text, TRUE), call.text, 1) = <<"1", "2", "0">>

====
